---- MODULE Spec2Model ----
(***************************************************************************)
(* RedisManager (src/core/redis_manager.py): the lock lifecycle on the     *)
(* remote store and on the in-process fallback, and the concurrency        *)
(* counters.                                                               *)
(*                                                                         *)
(* Time is counted in polling intervals (asyncio.sleep(0.1) is one unit).  *)
(* A task runs from one await to the next in one step; a command sent to   *)
(* the store is one step (the store executes each command atomically) and  *)
(* takes no time.  The clock moves only when no task is ready to run.      *)
(***************************************************************************)
EXTENDS Integers, Sequences, FiniteSets

\* ---- program constants ----
Poll == 1          \* asyncio.sleep(0.1)
DefaultTTL == 4    \* config.redis_lock_timeout

\* ---- bounds ----
MaxTime == 3       \* the clock stops here
MaxTokens == 3     \* acquire_lock calls in one run
MaxPairs == 2      \* acquire_lock calls per backend in a mirrored run
MaxOps == 7        \* completed increments, and decrements, in one run
Tasks == {1, 2}
Keys == {"job"}
CFKey == "cf:refresh"
LockKeys == Keys \cup {CFKey}
CFTimeouts == {1, 2}
TimeoutArgs == {0, 1}      \* 0: the argument is not given (None)
WaitArgs == {0, 1, 2}      \* 0: the argument is not given (None)
CacheValues == {1, 2}
ExArgs == {0, 1, 2}        \* 0: the argument is not given (None)

VARIABLES
  client,       \* per task: its manager's _client is not None
  now,          \* the event loop's clock
  rstore,       \* remote store, lock keys: key -> [val, exp]; val = 0: absent
  local_locks,  \* _local_locks: key -> lock value; 0: absent
  guard,        \* _local_lock: [owner, queue]
  timers,       \* the pending _auto_release_local_lock tasks
  nextToken,    \* the next uuid4 (lock values are fresh)
  pc,           \* per task: where it is suspended
  req,          \* per task: the arguments and locals of its call in progress
  out,          \* the value the last step returned to its caller, if it returned
  holders,      \* history: the callers that hold a lock (see Granted)
  granted,      \* history: the lock values acquire_lock has returned
  relTrue,      \* history: per lock value, the release calls that returned True
  mirror,       \* mirrored run: the call the fallback side has yet to repeat
  res,          \* mirrored run: per task, whether its last call returned a value
  rcount,       \* remote store, the counter key: [set, v]
  lcount,       \* _local_cache, the counter key: [set, v]
  ninc,         \* history: completed increment_concurrency calls
  ndec,         \* history: completed decrement_concurrency calls
  ref,          \* history: the counter of the sequential reference
  rcache,       \* remote store, the cache key: [val, exp]; exp = 0: no expiry
  lcache,       \* _local_cache, the cache key: its value; 0: absent
  ctimers,      \* the pending _auto_expire_local_cache tasks (their due times)
  last,         \* history: the last set or delete on the cache key
  enabled,      \* config.redis_enabled
  mclient,      \* the global manager: _client is not None
  initialized,  \* the global manager: _initialized
  pend,         \* per task: the wrapper call that waits for its initialize()
  used,         \* history: the backend of the operations since the last close
  lockOn,       \* history: per task, the backend its RedisLock was acquired on
  args,         \* per task: timeout and wait_timeout as its caller passed them
  lockobj       \* per task: its RedisLock (_lock_value, and whether in the body)

lockVars == <<now, rstore, local_locks, guard, timers, nextToken, req,
              holders, granted, relTrue>>
counterVars == <<rcount, lcount, ninc, ndec, ref>>
dualVars == <<mirror, res>>
cacheVars == <<rcache, lcache, ctimers, last>>
\* What the callers keep, and the manager state the lock and counter
\* operations do not touch.
wrapVars == <<args, lockobj>>
callerVars == <<dualVars, wrapVars>>
initVars == <<enabled, mclient, initialized, pend, used, lockOn>>
restVars == <<cacheVars, initVars>>
vars == <<client, pc, out, callerVars, lockVars, counterVars, restVars>>

Max(a, b) == IF a >= b THEN a ELSE b

\* An argument that is None, and Python's "x or y": y when x is None or 0.
NoneArg == 0 - 1
Or(x, y) == IF x = NoneArg \/ x = 0 THEN y ELSE x
Tokens == 1..Max(MaxTokens, 2 * MaxPairs)
Absent == [val |-> 0, exp |-> 0]
NoReq == [name |-> "none", key |-> "job", lock_value |-> 0, timeout |-> 0,
          blocking |-> FALSE, wait_timeout |-> 0, call |-> 0,
          start_time |-> 0, wake |-> 0, btok |-> 0, bexp |-> 0]
NoCall == [name |-> "none", key |-> "job", timeout |-> 0, blocking |-> FALSE,
           wait_timeout |-> 0, lock_value |-> 0]
Unset == [set |-> FALSE, v |-> 0]
NoArgs == [timeout |-> 0, wait_timeout |-> 0]
NoLock == [lock_value |-> 0, body |-> FALSE]
NoWrite == [op |-> "none", val |-> 0, exp |-> 0]

\* ---- asyncio.Lock: free, or owned with a FIFO queue of waiters ----
\* A task is the process t > 0, the auto-release task of lock value g is -g.
TimerProc(g) == 0 - g
GuardFree == guard.owner = 0
GuardRequest(p) ==
  IF GuardFree THEN [owner |-> p, queue |-> << >>]
  ELSE [guard EXCEPT !.queue = Append(@, p)]
GuardRelease ==
  IF guard.queue = << >> THEN [owner |-> 0, queue |-> << >>]
  ELSE [owner |-> Head(guard.queue), queue |-> Tail(guard.queue)]

\* A step that returns nothing to a caller.
NoOut == [task |-> 0, name |-> "none", val |-> 0]
\* The call returns v (None and False are 0, True is 1); its arguments and
\* locals are gone.
Return(t, v) ==
  /\ pc' = [pc EXCEPT ![t] = "idle"]
  /\ out' = [task |-> t, name |-> req[t].name, val |-> v]
  /\ req' = [req EXCEPT ![t] = NoReq]

\* A holder: a caller whose acquire returned a lock value, who has not called
\* release with it, and whose ttl has not run out since the acquire returned.
Granted(t) ==
  /\ holders' = holders \cup {[tok |-> req[t].lock_value, key |-> req[t].key,
                               task |-> t, exp |-> now + req[t].timeout]}
  /\ granted' = granted \cup {req[t].lock_value}

\* The manager as constructed, and the histories.
InitManager ==
  /\ now = 0
  /\ rstore = [k \in LockKeys |-> Absent]
  /\ local_locks = [k \in LockKeys |-> 0]
  /\ guard = [owner |-> 0, queue |-> << >>]
  /\ timers = {}
  /\ nextToken = 1
  /\ pc = [t \in Tasks |-> "idle"]
  /\ req = [t \in Tasks |-> NoReq]
  /\ out = NoOut
  /\ holders = {}
  /\ granted = {}
  /\ relTrue = [g \in Tokens |-> 0]
  /\ mirror = NoCall
  /\ res = [t \in Tasks |-> 0]
  /\ rcount = Unset
  /\ lcount = Unset
  /\ ninc = 0
  /\ ndec = 0
  /\ ref = 0
  /\ rcache = Absent
  /\ lcache = 0
  /\ ctimers = {}
  /\ last = NoWrite
  /\ mclient = FALSE
  /\ initialized = FALSE
  /\ pend = [t \in Tasks |-> "none"]
  /\ used = "none"
  /\ lockOn = [t \in Tasks |-> "none"]
  /\ args = [t \in Tasks |-> NoArgs]
  /\ lockobj = [t \in Tasks |-> NoLock]

InitState ==
  /\ enabled = TRUE
  /\ InitManager

\* One process: every task calls the same manager, remote or fallback.
Init ==
  /\ client \in {[t \in Tasks |-> b] : b \in BOOLEAN}
  /\ InitState

\* ---- acquire_lock ----
\* The call: lock value, defaults, and (fallback) the request for the guard.
CallAcquire(t, k, timeout, blocking, wait_timeout) ==
  /\ pc[t] = "idle"
  /\ LET ttl == Or(timeout, DefaultTTL)
         wt  == Or(wait_timeout, ttl)
         others == {h \in holders : h.key = k /\ h.task # t}
         \* history: a holder of the key at the call, if there is one
         b == IF others = {} THEN [tok |-> 0, exp |-> 0]
              ELSE CHOOSE h \in others : \A o \in others : h.exp >= o.exp
     IN req' = [req EXCEPT ![t] =
                  [name |-> "acquire", key |-> k, lock_value |-> nextToken,
                   timeout |-> ttl, blocking |-> blocking, wait_timeout |-> wt,
                   call |-> now, start_time |-> now, wake |-> now,
                   btok |-> b.tok, bexp |-> b.exp]]
  /\ nextToken' = nextToken + 1
  /\ pc' = [pc EXCEPT ![t] = "acquire"]
  /\ guard' = IF client[t] THEN guard ELSE GuardRequest(t)
  /\ out' = NoOut
  /\ UNCHANGED <<client, now, rstore, local_locks, timers, holders, granted, relTrue,
                 counterVars, restVars>>

\* Remote branch: one pass of the while loop, SET NX EX and what follows it.
RemoteTry(t) ==
  /\ client[t]
  /\ pc[t] \in {"acquire", "sleep"}
  /\ now >= req[t].wake
  /\ LET k == req[t].key IN
     IF rstore[k].val = 0
     THEN /\ rstore' = [rstore EXCEPT ![k] =
                          [val |-> req[t].lock_value, exp |-> now + req[t].timeout]]
          /\ Return(t, req[t].lock_value)
          /\ Granted(t)
     ELSE /\ UNCHANGED <<rstore, holders, granted>>
          /\ IF ~req[t].blocking
             THEN Return(t, 0)
             ELSE IF now - req[t].start_time >= req[t].wait_timeout
                  THEN Return(t, 0)
                  ELSE /\ pc' = [pc EXCEPT ![t] = "sleep"]
                       /\ req' = [req EXCEPT ![t].wake = now + Poll]
                       /\ out' = NoOut
  /\ UNCHANGED <<client, now, local_locks, guard, timers, nextToken, relTrue, counterVars, restVars>>

\* Fallback: record the lock, schedule its auto-release, leave the guard.
LocalStore(t) ==
  /\ local_locks' = [local_locks EXCEPT ![req[t].key] = req[t].lock_value]
  /\ timers' = timers \cup {[id |-> req[t].lock_value, key |-> req[t].key,
                             timeout |-> req[t].timeout,
                             due |-> now + req[t].timeout, waiting |-> FALSE]}
  /\ guard' = GuardRelease
  /\ Return(t, req[t].lock_value)
  /\ Granted(t)

\* Fallback branch, holding the guard: the first check of the key.
FallbackEnter(t) ==
  /\ ~client[t]
  /\ pc[t] = "acquire"
  /\ guard.owner = t
  /\ IF local_locks[req[t].key] # 0
     THEN /\ UNCHANGED <<local_locks, timers, holders, granted>>
          /\ IF ~req[t].blocking
             THEN Return(t, 0) /\ guard' = GuardRelease
             ELSE /\ req' = [req EXCEPT ![t].start_time = now,
                                        ![t].wake = now + Poll]
                  /\ pc' = [pc EXCEPT ![t] = "sleep"]
                  /\ out' = NoOut
                  /\ UNCHANGED guard
     ELSE LocalStore(t)
  /\ UNCHANGED <<client, now, rstore, nextToken, relTrue, counterVars, restVars>>

\* Fallback branch, after a sleep inside the guard: deadline, then the key.
FallbackWake(t) ==
  /\ ~client[t]
  /\ pc[t] = "sleep"
  /\ now >= req[t].wake
  /\ IF now - req[t].start_time >= req[t].wait_timeout
     THEN /\ Return(t, 0)
          /\ guard' = GuardRelease
          /\ UNCHANGED <<local_locks, timers, holders, granted>>
     ELSE IF local_locks[req[t].key] # 0
          THEN /\ req' = [req EXCEPT ![t].wake = now + Poll]
               /\ out' = NoOut
               /\ UNCHANGED <<local_locks, timers, holders, granted, pc, guard>>
          ELSE LocalStore(t)
  /\ UNCHANGED <<client, now, rstore, nextToken, relTrue, counterVars, restVars>>

\* ---- _auto_release_local_lock ----
\* The sleep is over: ask for the guard.
TimerWake(tm) ==
  /\ ~tm.waiting
  /\ now >= tm.due
  /\ timers' = (timers \ {tm}) \cup {[tm EXCEPT !.waiting = TRUE]}
  /\ guard' = GuardRequest(TimerProc(tm.id))
  /\ out' = NoOut
  /\ UNCHANGED <<client, now, rstore, local_locks, nextToken, pc, req,
                 holders, granted, relTrue, counterVars, restVars>>

\* Inside the guard: delete the key if it is there.
TimerRun(tm) ==
  /\ tm.waiting
  /\ guard.owner = TimerProc(tm.id)
  /\ local_locks' = [local_locks EXCEPT ![tm.key] = 0]
  /\ timers' = timers \ {tm}
  /\ guard' = GuardRelease
  /\ out' = NoOut
  /\ UNCHANGED <<client, now, rstore, nextToken, pc, req, holders, granted, relTrue, counterVars, restVars>>

\* ---- release_lock ----
CallRelease(t, k, v) ==
  /\ pc[t] = "idle"
  /\ req' = [req EXCEPT ![t] = [NoReq EXCEPT !.name = "release", !.key = k,
                                             !.lock_value = v, !.call = now]]
  /\ pc' = [pc EXCEPT ![t] = "release"]
  /\ guard' = IF client[t] THEN guard ELSE GuardRequest(t)
  /\ holders' = {h \in holders : ~(h.key = k /\ h.tok = v)}
  /\ out' = NoOut
  /\ UNCHANGED <<client, now, rstore, local_locks, timers, nextToken, granted,
                 relTrue, counterVars, restVars>>

\* A release that deletes whatever is stored, without comparing lock values.
ReleaseUnconditional(t) ==
  /\ pc[t] = "release"
  /\ client[t] \/ guard.owner = t
  /\ LET k == req[t].key
         v == req[t].lock_value
     IN /\ IF client[t]
           THEN /\ rstore' = [rstore EXCEPT ![k] = Absent]
                /\ UNCHANGED <<local_locks, guard>>
           ELSE /\ local_locks' = [local_locks EXCEPT ![k] = 0]
                /\ guard' = GuardRelease
                /\ UNCHANGED rstore
        /\ relTrue' = [relTrue EXCEPT ![v] = @ + 1]
        /\ Return(t, 1)
  /\ UNCHANGED <<client, now, timers, nextToken, holders, granted, counterVars, restVars>>

\* The compare-and-delete: the Lua script, or the body inside the guard.
ReleaseBody(t) ==
  /\ pc[t] = "release"
  /\ client[t] \/ guard.owner = t
  /\ LET k == req[t].key
         v == req[t].lock_value
     IN IF client[t]
        THEN /\ IF rstore[k].val = v
                THEN /\ rstore' = [rstore EXCEPT ![k] = Absent]
                     /\ relTrue' = [relTrue EXCEPT ![v] = @ + 1]
                     /\ Return(t, 1)
                ELSE /\ UNCHANGED <<rstore, relTrue>>
                     /\ Return(t, 0)
             /\ UNCHANGED <<local_locks, guard>>
        ELSE /\ IF local_locks[k] = v
                THEN /\ local_locks' = [local_locks EXCEPT ![k] = 0]
                     /\ relTrue' = [relTrue EXCEPT ![v] = @ + 1]
                     /\ Return(t, 1)
                ELSE /\ UNCHANGED <<local_locks, relTrue>>
                     /\ Return(t, 0)
             /\ guard' = GuardRelease
             /\ UNCHANGED rstore
  /\ UNCHANGED <<client, now, timers, nextToken, holders, granted, counterVars, restVars>>

\* ---- is_locked ----
IsLocked(t, k) ==
  /\ pc[t] = "idle"
  /\ out' = [task |-> t, name |-> "is_locked",
             val |-> IF client[t] THEN (IF rstore[k].val # 0 THEN 1 ELSE 0)
                     ELSE (IF local_locks[k] # 0 THEN 1 ELSE 0)]
  /\ UNCHANGED <<client, pc, lockVars, counterVars, restVars>>

\* ---- time ----
\* A task or timer that can run now (asyncio runs it before the clock moves).
Runnable ==
  \/ \E t \in Tasks :
       \/ pc[t] \in {"acquire", "release", "release_cf"}
          /\ (client[t] \/ guard.owner = t)
       \/ pc[t] = "sleep" /\ now >= req[t].wake
  \/ \E tm \in timers :
       \/ ~tm.waiting /\ now >= tm.due
       \/ tm.waiting /\ guard.owner = TimerProc(tm.id)

\* The clock moves one polling interval; the store drops the keys whose EX
\* has run out, and a holder whose ttl has run out is one no more.
Tick ==
  /\ now < MaxTime
  /\ ~Runnable
  /\ now' = now + 1
  /\ rstore' = [k \in LockKeys |->
                  IF rstore[k].val # 0 /\ rstore[k].exp <= now + 1
                  THEN Absent ELSE rstore[k]]
  /\ holders' = {h \in holders : h.exp > now + 1}
  /\ out' = NoOut
  /\ UNCHANGED <<client, local_locks, guard, timers, nextToken, pc, req,
                 granted, relTrue, counterVars, restVars>>

\* ---- one process, one backend ----
\* A caller passes release_lock a lock value that some acquire_lock returned.
Next ==
  \/ \E t \in Tasks, k \in Keys, ttl \in TimeoutArgs :
       /\ nextToken <= MaxTokens
       /\ \/ CallAcquire(t, k, ttl, FALSE, 0)
          \/ \E w \in WaitArgs : CallAcquire(t, k, ttl, TRUE, w)
       /\ UNCHANGED callerVars
  \/ \E t \in Tasks : RemoteTry(t) /\ UNCHANGED callerVars
  \/ \E t \in Tasks : FallbackEnter(t) /\ UNCHANGED callerVars
  \/ \E t \in Tasks : FallbackWake(t) /\ UNCHANGED callerVars
  \/ \E tm \in timers : TimerWake(tm) /\ UNCHANGED callerVars
  \/ \E tm \in timers : TimerRun(tm) /\ UNCHANGED callerVars
  \/ \E t \in Tasks, k \in Keys, v \in granted :
       CallRelease(t, k, v) /\ UNCHANGED callerVars
  \/ \E t \in Tasks : ReleaseBody(t) /\ UNCHANGED callerVars
  \/ \E t \in Tasks, k \in Keys : IsLocked(t, k) /\ UNCHANGED callerVars
  \/ Tick /\ UNCHANGED callerVars

Spec == Init /\ [][Next]_vars

\* ---- the same schedule on both backends ----
\* Task 1 calls a manager with a client, task 2 one without; every call of
\* task 1 is repeated by task 2 at the same time, with the same arguments
\* (release_lock: with the lock value its own acquire_lock drew, the next
\* one), and the next call is made when both have returned and no expiry is due.
InitDual ==
  /\ client = [t \in Tasks |-> t = 1]
  /\ InitState

\* Whether each side's last call returned a value (a lock value, True).
Results ==
  res' = IF out'.task = 0 THEN res
         ELSE [res EXCEPT ![out'.task] = IF out'.val # 0 THEN 1 ELSE 0]

BothIdle == mirror = NoCall /\ pc[1] = "idle" /\ pc[2] = "idle"

\* The caller makes its next call once due timers have run as well.
Settled == BothIdle /\ ~Runnable

NextDual ==
  \/ \E k \in Keys, ttl \in TimeoutArgs, b \in BOOLEAN, w \in WaitArgs :
       /\ Settled
       /\ nextToken < 2 * MaxPairs
       /\ b \/ w = 0
       /\ CallAcquire(1, k, ttl, b, w)
       /\ mirror' = [NoCall EXCEPT !.name = "acquire", !.key = k,
                                   !.timeout = ttl, !.blocking = b,
                                   !.wait_timeout = w]
       /\ Results /\ UNCHANGED wrapVars
  \/ /\ mirror.name = "acquire"
     /\ CallAcquire(2, mirror.key, mirror.timeout, mirror.blocking,
                    mirror.wait_timeout)
     /\ mirror' = NoCall
     /\ Results /\ UNCHANGED wrapVars
  \/ \E k \in Keys, v \in granted :
       /\ Settled
       /\ v % 2 = 1
       /\ CallRelease(1, k, v)
       /\ mirror' = [NoCall EXCEPT !.name = "release", !.key = k,
                                   !.lock_value = v + 1]
       /\ Results /\ UNCHANGED wrapVars
  \/ /\ mirror.name = "release"
     /\ CallRelease(2, mirror.key, mirror.lock_value)
     /\ mirror' = NoCall
     /\ Results /\ UNCHANGED wrapVars
  \/ \E k \in Keys :
       /\ Settled
       /\ IsLocked(1, k)
       /\ mirror' = [NoCall EXCEPT !.name = "is_locked", !.key = k]
       /\ Results /\ UNCHANGED wrapVars
  \/ /\ mirror.name = "is_locked"
     /\ IsLocked(2, mirror.key)
     /\ mirror' = NoCall
     /\ Results /\ UNCHANGED wrapVars
  \/ RemoteTry(1) /\ UNCHANGED mirror /\ Results /\ UNCHANGED wrapVars
  \/ FallbackEnter(2) /\ UNCHANGED mirror /\ Results /\ UNCHANGED wrapVars
  \/ FallbackWake(2) /\ UNCHANGED mirror /\ Results /\ UNCHANGED wrapVars
  \/ \E tm \in timers : TimerWake(tm) /\ UNCHANGED mirror /\ Results /\ UNCHANGED wrapVars
  \/ \E tm \in timers : TimerRun(tm) /\ UNCHANGED mirror /\ Results /\ UNCHANGED wrapVars
  \/ \E t \in Tasks : ReleaseBody(t) /\ UNCHANGED mirror /\ Results /\ UNCHANGED wrapVars
  \/ mirror = NoCall /\ Tick /\ UNCHANGED mirror /\ Results /\ UNCHANGED wrapVars

SpecDual == InitDual /\ [][NextDual]_vars

\* ---- concurrency counters (one counter key) ----
\* int(value) if value else 0, and _local_cache.get(key, 0)
Value(c) == IF c.set THEN c.v ELSE 0
AllIdle == \A t \in Tasks : pc[t] = "idle"

\* The call returns v; the sequential reference moves to r.
CounterReturn(t, name, v, r) ==
  /\ pc' = [pc EXCEPT ![t] = "idle"]
  /\ out' = [task |-> t, name |-> name, val |-> v]
  /\ ref' = r

GetConcurrency(t) ==
  /\ pc[t] = "idle"
  /\ CounterReturn(t, "get",
                   IF client[t] THEN Value(rcount) ELSE Value(lcount), ref)
  /\ UNCHANGED <<client, callerVars, lockVars, restVars, rcount, lcount, ninc, ndec>>

IncrementConcurrency(t) ==
  /\ pc[t] = "idle"
  /\ ninc < MaxOps
  /\ IF client[t]
     THEN /\ rcount' = [set |-> TRUE, v |-> Value(rcount) + 1]     \* INCR
          /\ CounterReturn(t, "incr", Value(rcount) + 1, ref + 1)
          /\ UNCHANGED lcount
     ELSE /\ lcount' = [set |-> TRUE, v |-> Value(lcount) + 1]
          /\ CounterReturn(t, "incr", Value(lcount) + 1, ref + 1)
          /\ UNCHANGED rcount
  /\ ninc' = ninc + 1
  /\ UNCHANGED <<client, callerVars, lockVars, restVars, ndec>>

\* A decrement without the floor: the stored value goes below zero.
DecrementUnfloored(t) ==
  /\ pc[t] = "idle"
  /\ ndec < MaxOps
  /\ IF client[t]
     THEN /\ rcount' = [set |-> TRUE, v |-> Value(rcount) - 1]
          /\ CounterReturn(t, "decr", Value(rcount) - 1, Max(0, ref - 1))
          /\ UNCHANGED lcount
     ELSE /\ lcount' = [set |-> TRUE, v |-> Value(lcount) - 1]
          /\ CounterReturn(t, "decr", Value(lcount) - 1, Max(0, ref - 1))
          /\ UNCHANGED rcount
  /\ ndec' = ndec + 1
  /\ UNCHANGED <<client, callerVars, lockVars, restVars, ninc>>

\* Remote: DECR, and when its result is negative the task awaits SET key 0.
DecrementConcurrency(t) ==
  /\ pc[t] = "idle"
  /\ ndec < MaxOps
  /\ IF client[t]
     THEN /\ rcount' = [set |-> TRUE, v |-> Value(rcount) - 1]     \* DECR
          /\ IF Value(rcount) - 1 < 0
             THEN /\ pc' = [pc EXCEPT ![t] = "fix"]
                  /\ out' = NoOut
                  /\ UNCHANGED <<ref, ndec>>
             ELSE /\ CounterReturn(t, "decr", Value(rcount) - 1,
                                   Max(0, ref - 1))
                  /\ ndec' = ndec + 1
          /\ UNCHANGED lcount
     ELSE /\ lcount' = [set |-> TRUE, v |-> Max(0, Value(lcount) - 1)]
          /\ CounterReturn(t, "decr", Max(0, Value(lcount) - 1),
                           Max(0, ref - 1))
          /\ ndec' = ndec + 1
          /\ UNCHANGED rcount
  /\ UNCHANGED <<client, callerVars, lockVars, restVars, ninc>>

\* Remote: SET key 0, return 0.
DecrementFix(t) ==
  /\ pc[t] = "fix"
  /\ rcount' = [set |-> TRUE, v |-> 0]
  /\ CounterReturn(t, "decr", 0, Max(0, ref - 1))
  /\ ndec' = ndec + 1
  /\ UNCHANGED <<client, callerVars, lockVars, restVars, lcount, ninc>>

\* Tasks (of one process, or with the remote store of several) interleave.
NextCounter ==
  \/ \E t \in Tasks : GetConcurrency(t)
  \/ \E t \in Tasks : IncrementConcurrency(t)
  \/ \E t \in Tasks : DecrementConcurrency(t)
  \/ \E t \in Tasks : DecrementFix(t)

SpecCounter == Init /\ [][NextCounter]_vars

\* The calls run one after another: a call starts when no call is in progress.
NextCounterSeq ==
  \/ \E t \in Tasks : AllIdle /\ GetConcurrency(t)
  \/ \E t \in Tasks : AllIdle /\ IncrementConcurrency(t)
  \/ \E t \in Tasks : AllIdle /\ DecrementConcurrency(t)
  \/ \E t \in Tasks : DecrementFix(t)

SpecCounterSeq == Init /\ [][NextCounterSeq]_vars

\* ---- cache operations (one cache key) ----
\* No task is inside a lock or counter call, so each cache call is one step:
\* one command of the store, or the fallback body, which has no await.
CacheIdle == \A t \in Tasks : pc[t] = "idle"
CacheFrame ==
  UNCHANGED <<client, pc, rstore, local_locks, guard, timers, nextToken, req,
              holders, granted, relTrue, counterVars, callerVars, initVars>>

\* The value stored in t's backend (0: absent).
Cached(t) == IF client[t] THEN rcache.val ELSE lcache

CacheGet(t) ==
  /\ CacheIdle
  /\ out' = [task |-> t, name |-> "get", val |-> Cached(t)]
  /\ UNCHANGED <<now, cacheVars>>
  /\ CacheFrame

CacheExists(t) ==
  /\ CacheIdle
  /\ out' = [task |-> t, name |-> "exists",
             val |-> IF Cached(t) # 0 THEN 1 ELSE 0]
  /\ UNCHANGED <<now, cacheVars>>
  /\ CacheFrame

\* Remote: SET with or without EX.  Fallback: store the value and, when ex is
\* given, create the task that deletes the key after ex.
CacheSet(t, v, ex) ==
  /\ CacheIdle
  /\ IF client[t]
     THEN /\ rcache' = [val |-> v, exp |-> IF ex = 0 THEN 0 ELSE now + ex]
          /\ UNCHANGED <<lcache, ctimers>>
     ELSE /\ lcache' = v
          /\ ctimers' = IF ex # 0 THEN ctimers \cup {now + ex} ELSE ctimers
          /\ UNCHANGED rcache
  /\ last' = [op |-> "set", val |-> v, exp |-> IF ex = 0 THEN 0 ELSE now + ex]
  /\ out' = [task |-> t, name |-> "set", val |-> 1]
  /\ UNCHANGED now
  /\ CacheFrame

CacheDelete(t) ==
  /\ CacheIdle
  /\ IF client[t]
     THEN rcache' = Absent /\ UNCHANGED lcache
     ELSE lcache' = 0 /\ UNCHANGED rcache
  /\ last' = [op |-> "delete", val |-> 0, exp |-> 0]
  /\ out' = [task |-> t, name |-> "delete",
             val |-> IF Cached(t) # 0 THEN 1 ELSE 0]
  /\ UNCHANGED <<now, ctimers>>
  /\ CacheFrame

\* _auto_expire_local_cache, after its sleep: delete the key if it is there.
CacheExpire(due) ==
  /\ now >= due
  /\ lcache' = 0
  /\ ctimers' = ctimers \ {due}
  /\ out' = NoOut
  /\ UNCHANGED <<now, rcache, last>>
  /\ CacheFrame

\* No expiry task is due (asyncio runs a due task before the clock moves).
CacheSettled == \A due \in ctimers : now < due

\* The clock moves; the store drops the cache key when its EX has run out.
CacheTick ==
  /\ now < MaxTime
  /\ CacheSettled
  /\ now' = now + 1
  /\ rcache' = IF rcache.val # 0 /\ rcache.exp # 0 /\ rcache.exp <= now + 1
               THEN Absent ELSE rcache
  /\ out' = NoOut
  /\ UNCHANGED <<lcache, ctimers, last>>
  /\ CacheFrame

\* A caller calls once the expiry tasks that are due have run.
NextCache ==
  \/ \E t \in Tasks : CacheSettled /\ CacheGet(t)
  \/ \E t \in Tasks : CacheSettled /\ CacheExists(t)
  \/ \E t \in Tasks, v \in CacheValues, ex \in ExArgs :
       CacheSettled /\ CacheSet(t, v, ex)
  \/ \E t \in Tasks : CacheSettled /\ CacheDelete(t)
  \/ \E due \in ctimers : CacheExpire(due)
  \/ CacheTick

SpecCache == Init /\ [][NextCache]_vars

\* ---- the store fails ----
\* A command sent to the store raises (a transient network error); the
\* command has not been executed.  A call that lets the exception through
\* ends with Raised in place of a return value.
Raised == 0 - 1

InitRemote ==
  /\ client = [t \in Tasks |-> TRUE]
  /\ InitState

\* acquire_lock: SET NX EX raises, nothing catches it.
RemoteTryFails(t) ==
  /\ client[t]
  /\ pc[t] \in {"acquire", "sleep"}
  /\ now >= req[t].wake
  /\ Return(t, Raised)
  /\ UNCHANGED <<client, now, rstore, local_locks, guard, timers, nextToken,
                 holders, granted, relTrue, counterVars, restVars>>

\* release_lock: EVAL raises, the except branch returns False.
ReleaseFails(t) ==
  /\ client[t]
  /\ pc[t] = "release"
  /\ Return(t, 0)
  /\ UNCHANGED <<client, now, rstore, local_locks, guard, timers, nextToken,
                 holders, granted, relTrue, counterVars, restVars>>

\* The operations that send one command (the first one, for decrement) and
\* have no try around it.
OneCommandOps ==
  {"is_locked", "get", "set", "delete", "exists", "get_concurrency",
   "increment_concurrency", "decrement_concurrency"}

CommandFails(t, name) ==
  /\ client[t]
  /\ pc[t] = "idle"
  /\ out' = [task |-> t, name |-> name, val |-> Raised]
  /\ UNCHANGED <<client, pc, lockVars, counterVars, restVars>>

NextFail ==
  \/ \E t \in Tasks, k \in Keys, ttl \in TimeoutArgs :
       /\ nextToken <= MaxTokens
       /\ \/ CallAcquire(t, k, ttl, FALSE, 0)
          \/ \E w \in WaitArgs : CallAcquire(t, k, ttl, TRUE, w)
       /\ UNCHANGED callerVars
  \/ \E t \in Tasks : RemoteTry(t) /\ UNCHANGED callerVars
  \/ \E t \in Tasks : RemoteTryFails(t) /\ UNCHANGED callerVars
  \/ \E t \in Tasks, k \in Keys, v \in granted :
       CallRelease(t, k, v) /\ UNCHANGED callerVars
  \/ \E t \in Tasks : ReleaseBody(t) /\ UNCHANGED callerVars
  \/ \E t \in Tasks : ReleaseFails(t) /\ UNCHANGED callerVars
  \/ \E t \in Tasks, k \in Keys : IsLocked(t, k) /\ UNCHANGED callerVars
  \/ \E t \in Tasks, name \in OneCommandOps :
       CommandFails(t, name) /\ UNCHANGED callerVars
  \/ Tick /\ UNCHANGED callerVars

SpecFail == InitRemote /\ [][NextFail]_vars

\* ---- initialize, close, and the lazily initializing wrappers ----
\* The global manager of one process.  A task awaiting ping() is at "ping",
\* one awaiting the client's close() at "closing".
InitStartup ==
  /\ client = [t \in Tasks |-> FALSE]
  /\ enabled \in BOOLEAN
  /\ InitManager

InitFrame ==
  UNCHANGED <<client, lockVars, counterVars, callerVars, cacheVars>>

Backend(c) == IF c THEN "remote" ELSE "fallback"

\* initialize() returns r to task t.  When a wrapper called it, the wrapper
\* goes on to the manager operation without another await: acquire_lock reads
\* _client (c is its value once initialize has returned).
InitReturn(t, r, c) ==
  /\ pc' = [pc EXCEPT ![t] = "idle"]
  /\ pend' = [pend EXCEPT ![t] = "none"]
  /\ IF pend[t] = "none"
     THEN /\ out' = [task |-> t, name |-> "initialize", val |-> r]
          /\ UNCHANGED <<used, lockOn>>
     ELSE /\ out' = [task |-> t, name |-> pend[t], val |-> 1]
          /\ used' = Backend(c)
          /\ lockOn' = [lockOn EXCEPT ![t] = Backend(c)]

\* initialize(), up to its return or to the await of ping(); op is the
\* wrapper call it was made from ("none": a direct call).
Initialize(t, op) ==
  /\ pc[t] = "idle"
  /\ IF ~enabled
     THEN /\ initialized' = TRUE
          /\ UNCHANGED mclient
          /\ pend' = [pend EXCEPT ![t] = "none"]
          /\ pc' = pc
          /\ IF op = "none"
             THEN /\ out' = [task |-> t, name |-> "initialize", val |-> 0]
                  /\ UNCHANGED <<used, lockOn>>
             ELSE /\ out' = [task |-> t, name |-> op, val |-> 1]
                  /\ used' = Backend(mclient)
                  /\ lockOn' = [lockOn EXCEPT ![t] = Backend(mclient)]
     ELSE /\ mclient' = TRUE
          /\ pc' = [pc EXCEPT ![t] = "ping"]
          /\ pend' = [pend EXCEPT ![t] = op]
          /\ out' = NoOut
          /\ UNCHANGED <<initialized, used, lockOn>>
  /\ UNCHANGED enabled
  /\ InitFrame

\* ping() returns, or raises (ok = FALSE).
PingReturns(t, ok) ==
  /\ pc[t] = "ping"
  /\ initialized' = TRUE
  /\ mclient' = IF ok THEN mclient ELSE FALSE
  /\ InitReturn(t, IF ok THEN 1 ELSE 0, mclient')
  /\ UNCHANGED enabled
  /\ InitFrame

\* RedisLock.acquire: initialize() if the manager is not marked initialized,
\* then acquire_lock on the backend in use.
LazyAcquire(t) ==
  /\ pc[t] = "idle"
  /\ lockOn[t] = "none"
  /\ IF initialized
     THEN /\ out' = [task |-> t, name |-> "acquire", val |-> 1]
          /\ used' = Backend(mclient)
          /\ lockOn' = [lockOn EXCEPT ![t] = Backend(mclient)]
          /\ UNCHANGED <<pc, enabled, mclient, initialized, pend>>
          /\ InitFrame
     ELSE Initialize(t, "acquire")

\* RedisLock.release: release_lock on the backend in use.
LazyRelease(t) ==
  /\ pc[t] = "idle"
  /\ lockOn[t] # "none"
  /\ out' = [task |-> t, name |-> "release", val |-> 1]
  /\ used' = Backend(mclient)
  /\ lockOn' = [lockOn EXCEPT ![t] = "none"]
  /\ UNCHANGED <<pc, enabled, mclient, initialized, pend>>
  /\ InitFrame

\* close(): with a client, await its close() first.
Close(t) ==
  /\ pc[t] = "idle"
  /\ IF mclient
     THEN /\ pc' = [pc EXCEPT ![t] = "closing"]
          /\ out' = NoOut
          /\ UNCHANGED <<mclient, initialized>>
     ELSE /\ initialized' = FALSE
          /\ out' = [task |-> t, name |-> "close", val |-> 0]
          /\ UNCHANGED <<pc, mclient>>
  /\ used' = "none"
  /\ lockOn' = [u \in Tasks |-> "none"]
  /\ UNCHANGED <<enabled, pend>>
  /\ InitFrame

CloseDone(t) ==
  /\ pc[t] = "closing"
  /\ mclient' = FALSE
  /\ initialized' = FALSE
  /\ pc' = [pc EXCEPT ![t] = "idle"]
  /\ out' = [task |-> t, name |-> "close", val |-> 0]
  /\ used' = "none"
  /\ lockOn' = [u \in Tasks |-> "none"]
  /\ UNCHANGED <<enabled, pend>>
  /\ InitFrame

\* The configuration is edited.
SetEnabled(b) ==
  /\ enabled # b
  /\ enabled' = b
  /\ out' = NoOut
  /\ UNCHANGED <<pc, mclient, initialized, pend, used, lockOn>>
  /\ InitFrame

\* Tasks of one process enter through the wrappers; the process calls
\* initialize() itself only while the manager is not marked initialized.
NextLazy ==
  \/ \E t \in Tasks : ~initialized /\ Initialize(t, "none")
  \/ \E t \in Tasks, ok \in BOOLEAN : PingReturns(t, ok)
  \/ \E t \in Tasks : LazyAcquire(t)
  \/ \E t \in Tasks : LazyRelease(t)
  \/ \E t \in Tasks : Close(t)
  \/ \E t \in Tasks : CloseDone(t)

SpecLazy == InitStartup /\ [][NextLazy]_vars

\* One call at a time, initialize() in any state of the manager.
NextInit ==
  \/ \E t \in Tasks : AllIdle /\ Initialize(t, "none")
  \/ \E t \in Tasks, ok \in BOOLEAN : PingReturns(t, ok)
  \/ \E t \in Tasks : AllIdle /\ LazyAcquire(t)
  \/ \E t \in Tasks : AllIdle /\ LazyRelease(t)
  \/ \E t \in Tasks : AllIdle /\ Close(t)
  \/ \E t \in Tasks : CloseDone(t)
  \/ \E b \in BOOLEAN : AllIdle /\ SetEnabled(b)

SpecInit == InitStartup /\ [][NextInit]_vars

\* ---- the Cloudflare refresh lock ----
\* acquire_cf_lock(timeout) is acquire_lock("cf:refresh", timeout,
\* blocking=False); its result is whether a lock value came back.
AcquireCF(t, timeout) == CallAcquire(t, CFKey, timeout, FALSE, 0)

\* release_cf_lock: the call; the caller holds the lock no more.
CallReleaseCF(t) ==
  /\ pc[t] = "idle"
  /\ req' = [req EXCEPT ![t] = [NoReq EXCEPT !.name = "release_cf",
                                             !.key = CFKey, !.call = now]]
  /\ pc' = [pc EXCEPT ![t] = "release_cf"]
  /\ guard' = IF client[t] THEN guard ELSE GuardRequest(t)
  /\ holders' = {h \in holders : ~(h.key = CFKey /\ h.task = t)}
  /\ out' = NoOut
  /\ UNCHANGED <<client, now, rstore, local_locks, timers, nextToken, granted,
                 relTrue, counterVars, restVars>>

\* DEL of the key, or the deletion inside the guard: whatever is stored.
ReleaseCFBody(t) ==
  /\ pc[t] = "release_cf"
  /\ client[t] \/ guard.owner = t
  /\ IF client[t]
     THEN /\ rstore' = [rstore EXCEPT ![CFKey] = Absent]
          /\ UNCHANGED <<local_locks, guard>>
     ELSE /\ local_locks' = [local_locks EXCEPT ![CFKey] = 0]
          /\ guard' = GuardRelease
          /\ UNCHANGED rstore
  /\ Return(t, 0)
  /\ UNCHANGED <<client, now, timers, nextToken, holders, granted, relTrue,
                 counterVars, restVars>>

\* The processes that refresh the credentials share the store (or, in the
\* fallback, are the tasks of one process).
NextCF ==
  \/ \E t \in Tasks, timeout \in CFTimeouts :
       /\ nextToken <= MaxTokens
       /\ AcquireCF(t, timeout)
       /\ UNCHANGED callerVars
  \/ \E t \in Tasks : RemoteTry(t) /\ UNCHANGED callerVars
  \/ \E t \in Tasks : FallbackEnter(t) /\ UNCHANGED callerVars
  \/ \E tm \in timers : TimerWake(tm) /\ UNCHANGED callerVars
  \/ \E tm \in timers : TimerRun(tm) /\ UNCHANGED callerVars
  \/ \E t \in Tasks : CallReleaseCF(t) /\ UNCHANGED callerVars
  \/ \E t \in Tasks : ReleaseCFBody(t) /\ UNCHANGED callerVars
  \/ Tick /\ UNCHANGED callerVars

SpecCF == Init /\ [][NextCF]_vars

\* ---- arguments given and not given ----
\* A manager with a client; the callers pass None, 0 or a positive number.
GivenArgs == {NoneArg, 0, 1}

NextDefaults ==
  \/ \E t \in Tasks, k \in Keys, ttl \in {NoneArg, 1}, b \in BOOLEAN,
        w \in GivenArgs :
       /\ nextToken <= MaxTokens
       /\ CallAcquire(t, k, ttl, b, w)
       /\ args' = [args EXCEPT ![t] = [timeout |-> ttl, wait_timeout |-> w]]
       /\ UNCHANGED <<dualVars, lockobj>>
  \/ \E t \in Tasks : RemoteTry(t) /\ UNCHANGED callerVars
  \/ \E t \in Tasks, k \in Keys, v \in granted :
       CallRelease(t, k, v) /\ UNCHANGED callerVars
  \/ \E t \in Tasks : ReleaseBody(t) /\ UNCHANGED callerVars
  \/ Tick /\ UNCHANGED callerVars

SpecDefaults == InitRemote /\ [][NextDefaults]_vars

\* ---- async with RedisLock(key, timeout) ----
WithTimeouts == {1, 2}

\* __aenter__: acquire() with its defaults, blocking and with the lock's
\* timeout as the wait deadline.
EnterWith(t, k, timeout) ==
  /\ lockobj[t] = NoLock
  /\ LET self_timeout == Or(timeout, DefaultTTL)
     IN CallAcquire(t, k, self_timeout, TRUE, Or(NoneArg, self_timeout))
  /\ UNCHANGED lockobj

\* acquire_lock has returned to acquire(): _lock_value is what it returned,
\* acquire()'s result is dropped by __aenter__ and the body starts.
WithReturn ==
  lockobj' = IF out'.task # 0 /\ out'.name = "acquire"
             THEN [lockobj EXCEPT ![out'.task] =
                     [lock_value |-> out'.val, body |-> TRUE]]
             ELSE lockobj

\* __aexit__: release() returns at once when _lock_value is None, and calls
\* release_lock otherwise.
ExitWith(t, k) ==
  /\ lockobj[t].body
  /\ lockobj' = [lockobj EXCEPT ![t] = NoLock]
  /\ IF lockobj[t].lock_value = 0
     THEN /\ pc[t] = "idle"
          /\ out' = [task |-> t, name |-> "exit", val |-> 0]
          /\ UNCHANGED <<client, pc, lockVars, counterVars, restVars>>
     ELSE CallRelease(t, k, lockobj[t].lock_value)

NextWith ==
  \/ \E t \in Tasks, k \in Keys, timeout \in WithTimeouts :
       /\ nextToken <= MaxTokens
       /\ EnterWith(t, k, timeout)
       /\ UNCHANGED <<dualVars, args>>
  \/ \E t \in Tasks : RemoteTry(t) /\ WithReturn /\ UNCHANGED <<dualVars, args>>
  \/ \E t \in Tasks :
       FallbackEnter(t) /\ WithReturn /\ UNCHANGED <<dualVars, args>>
  \/ \E t \in Tasks :
       FallbackWake(t) /\ WithReturn /\ UNCHANGED <<dualVars, args>>
  \/ \E tm \in timers : TimerWake(tm) /\ UNCHANGED callerVars
  \/ \E tm \in timers : TimerRun(tm) /\ UNCHANGED callerVars
  \/ \E t \in Tasks, k \in Keys :
       ExitWith(t, k) /\ UNCHANGED <<dualVars, args>>
  \/ \E t \in Tasks : ReleaseBody(t) /\ UNCHANGED callerVars
  \/ Tick /\ UNCHANGED callerVars

SpecWith == Init /\ [][NextWith]_vars

\* ---- two keys on the fallback ----
InitFallback ==
  /\ client = [t \in Tasks |-> FALSE]
  /\ InitState

\* One key is locked through acquire_lock and released by its holder, the
\* refresh key through acquire_cf_lock and release_cf_lock.
NextKeys ==
  \/ \E t \in Tasks, k \in Keys, w \in {NoneArg, 1} :
       /\ nextToken <= MaxTokens
       /\ CallAcquire(t, k, NoneArg, TRUE, w)
       /\ UNCHANGED callerVars
  \/ \E t \in Tasks, timeout \in CFTimeouts :
       /\ nextToken <= MaxTokens
       /\ AcquireCF(t, timeout)
       /\ UNCHANGED callerVars
  \/ \E t \in Tasks : FallbackEnter(t) /\ UNCHANGED callerVars
  \/ \E t \in Tasks : FallbackWake(t) /\ UNCHANGED callerVars
  \/ \E tm \in timers : TimerWake(tm) /\ UNCHANGED callerVars
  \/ \E tm \in timers : TimerRun(tm) /\ UNCHANGED callerVars
  \/ \E h \in holders :
       h.key \in Keys /\ CallRelease(h.task, h.key, h.tok) /\ UNCHANGED callerVars
  \/ \E t \in Tasks : ReleaseBody(t) /\ UNCHANGED callerVars
  \/ \E t \in Tasks : CallReleaseCF(t) /\ UNCHANGED callerVars
  \/ \E t \in Tasks : ReleaseCFBody(t) /\ UNCHANGED callerVars
  \/ Tick /\ UNCHANGED callerVars

SpecKeys == InitFallback /\ [][NextKeys]_vars

\* ---- the lock claims ----
\* The lock value stored for the key of t's call, in t's backend (0: none).
Stored(t) ==
  IF client[t] THEN rstore[req[t].key].val ELSE local_locks[req[t].key]

Acquiring(t) == pc[t] \in {"acquire", "sleep"}

\* C1: mutual exclusion.  At every instant, no key has two holders (two
\* callers whose acquire returned a lock value, who have not released it and
\* whose ttl has not elapsed), in either backend.
C1_MutualExclusion ==
  \A g \in holders, h \in holders : g.key = h.key => g.task = h.task

C3_Expiry ==
  /\ \A k \in Keys : rstore[k].val # 0 => now < rstore[k].exp
  /\ \A tm \in timers : now > tm.due => local_locks[tm.key] # tm.id

\* C4: bounded blocking.  A blocking acquire on a key that another owner has
\* held since before the call is over no later than wait_timeout plus one
\* polling interval after the call.
C4_BoundedBlocking ==
  \A t \in Tasks :
    (/\ Acquiring(t)
     /\ req[t].blocking
     /\ \E h \in holders : h.tok = req[t].btok /\ h.task # t)
    => now <= req[t].call + req[t].wait_timeout + Poll

\* C5: a blocking acquire gets the lock that becomes free in time.  When the
\* key was held at the call, the holder's ttl ends strictly before
\* wait_timeout has elapsed since the call, and no third caller has taken the
\* key, the acquire does not return None.
C5_FreedInTime ==
  [][\A t \in Tasks :
       (/\ Acquiring(t)
        /\ req[t].blocking
        /\ req[t].btok # 0
        /\ req[t].bexp < req[t].call + req[t].wait_timeout
        /\ Stored(t) \in {0, req[t].btok}
        /\ pc'[t] = "idle")
       => out'.val # 0]_vars

\* C6: a non-blocking acquire on a held key returns at once: the clock does
\* not move while the call is in progress.
C6_NonBlockingImmediate ==
  \A t \in Tasks :
    (pc[t] = "acquire" /\ ~req[t].blocking /\ Stored(t) # 0)
    => now = req[t].call
\* C7: dual-backend equivalence.  When both sides have run the same schedule
\* and neither has anything left to do at this instant, a key is in the
\* fallback map iff it is in the remote store, and the last call returned a
\* value on both sides or on neither.
C7_DualEquivalence ==
  Settled =>
    /\ \A k \in Keys : (local_locks[k] # 0) <=> (rstore[k].val # 0)
    /\ res[1] = res[2]

\* ---- the counter claims ----
\* The counter as stored in the backend in use.
Counter == IF client[1] THEN Value(rcount) ELSE Value(lcount)

\* C8: counter floor, calls one after another.  Each increment returns
\* old + 1, each decrement max(0, old - 1) (old is 0 for an absent counter)
\* and get returns the last value: what a call returns is the value of the
\* sequential reference, never negative, and it is the value stored.
C8_CounterFloor ==
  /\ out.name \in {"get", "incr", "decr"} => out.val = ref /\ out.val >= 0
  /\ AllIdle => Counter = ref

\* C8 witness: after three increments in all, the seventh decrement has
\* returned 0.
C8_Witness ==
  /\ out.name = "decr" /\ out.val = 0
  /\ ninc = 3 /\ ndec = 7

\* C9: counter non-negativity.  In every reachable state the stored value is
\* >= 0, get never returns a negative number, increment never less than 1.
C9_NonNegative ==
  /\ Value(rcount) >= 0
  /\ Value(lcount) >= 0
  /\ out.name = "get" => out.val >= 0
  /\ out.name = "incr" => out.val >= 1

\* C10: no lost updates.  Once i increments and d decrements have all
\* completed, the stored value is at least max(0, i - d).
C10_NoLostUpdate ==
  AllIdle => Counter >= Max(0, ninc - ndec)

\* ---- the cache claims ----
\* What the last set or delete left: the value of a set whose ex has not
\* elapsed (or that had none), and nothing otherwise.
Expected ==
  IF last.op = "set" /\ (last.exp = 0 \/ now < last.exp) THEN last.val ELSE 0

\* C11: cache round trip.  In both backends the cache key holds the value of
\* the last set until that set's ex has elapsed (forever without ex), whatever
\* was set or deleted before, and nothing after the ex or after a delete; get
\* returns that value and exists tells whether there is one.
C11_CacheRoundTrip ==
  /\ CacheSettled => \A t \in Tasks : Cached(t) = Expected
  /\ out.name = "get" => out.val = Expected
  /\ out.name = "exists" => out.val = (IF Expected # 0 THEN 1 ELSE 0)

\* ---- the store-failure claims ----
\* C12: backend errors never crash the caller.  With the store failing, no
\* manager operation ends by raising: every call returns a value to its
\* caller.
C12_NoCrash == out.val # Raised

\* ---- the initialization claims ----
\* C13: the result of initialize() matches the selected backend.  When
\* initialize() has just returned r, is_connected is r; when close() has just
\* returned, is_connected is false.
C13_InitializeResult ==
  /\ out.name = "initialize" => (mclient <=> out.val = 1)
  /\ out.name = "close" => ~mclient

\* C14: backend selection is made once.  From the first operation until
\* close() every operation runs on the same backend, and a lock is released
\* on the backend it was acquired on.
C14_BackendFixed ==
  [][/\ (used # "none" /\ used' # "none") => used' = used
     /\ \A t \in Tasks :
          (out'.task = t /\ out'.name = "release") => used' = lockOn[t]]_vars

\* ---- the refresh-lock claims ----
\* C15: single refresher.  At most one process at a time holds the refresh
\* lock: two callers whose acquire_cf_lock returned True, who have not called
\* release_cf_lock since and whose timeout has not elapsed, are the same one.
C15_SingleRefresher ==
  \A g \in holders, h \in holders :
    (g.key = CFKey /\ h.key = CFKey) => g.task = h.task

\* ---- the fallback expiry claims ----
\* C16: a fallback expiry action touches only its own lock.  When the
\* auto-release task of a lock value runs and the key holds another lock
\* value (the lock was released and the key acquired again) or none, it
\* changes no lock record.
C16_OwnExpiryOnly ==
  [][\A tm \in timers :
       (tm.waiting /\ guard.owner = TimerProc(tm.id) /\ tm \notin timers')
       => (local_locks[tm.key] # tm.id => local_locks' = local_locks)]_vars

\* ---- the default-argument claims ----
\* C17: defaults apply only to unspecified arguments.  A blocking acquire
\* goes to sleep after a failed attempt only while less than its wait deadline
\* has elapsed, the deadline being the wait_timeout its caller passed, or the
\* ttl when the caller passed none: with wait_timeout = 0 it never sleeps.
C17_SuppliedDeadline ==
  \A t \in Tasks :
    pc[t] = "sleep" =>
      LET w == IF args[t].wait_timeout = NoneArg THEN req[t].timeout
               ELSE args[t].wait_timeout
      IN (req[t].wake - Poll) - req[t].start_time < w

\* ---- the context-manager claims ----
\* C18: the RedisLock context manager guards its body.  A task that is in
\* the body of async with RedisLock(key) has a lock value: its acquire
\* returned True.
C18_BodyGuarded ==
  \A t \in Tasks : lockobj[t].body => lockobj[t].lock_value # 0

\* ---- the key-independence claims ----
\* C19: keys are independent in fallback mode.  While a task is suspended in
\* a blocking acquire on one key, an acquire, release or release_cf_lock on
\* another key completes without waiting: the clock does not move while that
\* call is in progress.
C19_KeysIndependent ==
  \A t \in Tasks, u \in Tasks :
    (/\ pc[u] = "sleep"
     /\ pc[t] \in {"acquire", "release", "release_cf"}
     /\ req[t].key # req[u].key)
    => now = req[t].call
====
